---- MODULE Spec2Model ----
(***************************************************************************)
(* A model of the transit-isochrone reachability engine:                   *)
(*   - dijkstra (src/src/dijkstra.rs), the time-dependent search over a    *)
(*     graph of walking and transport edges, stepped one heap pop and one  *)
(*     edge of the inner for-loop at a time;                               *)
(*   - GraphBuilder (src/src/graph_builder.rs): load_osm, load_gtfs, build.*)
(*                                                                         *)
(* Geometry.  Coordinates are positions along one meridian, counted in     *)
(* 1/UnitsPerMetre metres; haversine_distance of two such points is the    *)
(* absolute difference.  Times are u32 seconds; the u32 arithmetic is kept *)
(* modulo 2^WordBits, and an overflowing operation panics under the        *)
(* "debug" profile (overflow checks on) and wraps under "release".         *)
(***************************************************************************)
EXTENDS Integers, Sequences, FiniteSets, TLC

VARIABLES
    profile,           \* "debug" | "release": whether u32 overflow panics or wraps
    nodes,             \* Graph.nodes: NodeId -> [x, edges]
    tree,              \* the k-d tree handed to dijkstra: set of [point, id]
    start_coords,      \* query point
    arrival_time,      \* arrival_time.num_seconds_from_midnight()
    duration,          \* the budget
    start_time,        \* dijkstra's local start_time (earliest departure)
    start_node,        \* dijkstra's local start_node, 0 before the snapping
    queue,             \* the BinaryHeap, kept as a sequence in pop order
    visited,           \* the HashSet of settled positions
    reachable_coords,  \* the returned k-d tree: sequence of [node, coordinates, value]
    pc,                \* "start" | "loop" | "edges" | "ok" | "err" | "panic"
    cur,               \* the State popped by the running iteration of the while loop
    idx,               \* index of the next edge of the for loop
    settled,           \* history: position -> current_duration at its first pop
    last_relax,        \* history: what the last iteration of the for loop did
    pushes,            \* history: the number of queue.push calls of the run
    underflow,         \* history: the u32 subtraction that went below zero, if any
    earlier,           \* history: what the query before this one returned
    grid,              \* the cells create_grid returned
    b_pc,              \* the builder: "new" | "osm" | "osm_loaded" | "gtfs_loaded" |
                       \*   "built" | "error" | "panic"
    b_nodes,           \* GraphBuilder.nodes: NodeId -> Node
    adjacency,         \* GraphBuilder.adjacency: NodeId -> sequence of edges
    b_tree,            \* GraphBuilder.tree: sequence of [point, id], in order of insertion
    element,           \* the element handed to the closure of for_each
    accepted,          \* whether that element was a node element kept as a node
    n_read,            \* elements read so far
    gtfs,              \* the feed load_gtfs read
    graph              \* what build returned

vars == <<profile, nodes, tree, start_coords, arrival_time, duration, start_time,
          start_node, queue, visited, reachable_coords, pc, cur, idx, settled,
          last_relax, pushes, underflow, earlier, grid, b_pc, b_nodes, adjacency, b_tree, element, accepted, n_read,
          gtfs, graph>>

\* the builder's state
bvars == <<b_pc, b_nodes, adjacency, b_tree, element, accepted, n_read, gtfs, graph>>

\* what a run of dijkstra leaves alone
inputs == <<profile, nodes, tree, start_coords, arrival_time, duration, earlier, grid,
            bvars>>

\* the state of a search
dvars == <<profile, nodes, tree, start_coords, arrival_time, duration, start_time,
           start_node, queue, visited, reachable_coords, pc, cur, idx, settled,
           last_relax, pushes, underflow, earlier, grid>>

---------------------------------------------------------------------------
(* Bounds of the model *)

WordBits == 20
UnitsPerMetre == 2
MaxEdges == 3
MaxTime == 4
MaxDur == 4

(* Program constants *)

MAX_DISTANCE == 500
WALKING_SPEED == 1

(* Option::None of the Option<u32> fields of an edge *)
None == -1

Modulus == 2 ^ WordBits

Overflows(x) == x < 0 \/ x >= Modulus

Wrap(x) == x % Modulus

---------------------------------------------------------------------------
(* Geodesic utilities *)

Abs(x) == IF x < 0 THEN -x ELSE x

\* haversine_distance, in units of 1/UnitsPerMetre metres
haversine_distance(a, b) == Abs(b - a)

\* distance > MAX_DISTANCE
TooFar(d) == d > MAX_DISTANCE * UnitsPerMetre

\* (distance / WALKING_SPEED) as u32: the cast truncates towards zero
WalkSeconds(d) == d \div (UnitsPerMetre * WALKING_SPEED)

\* tree.nearest(point, 1, &haversine_distance): any entry at the least distance
Nearest(t, p) ==
    {e \in t : \A f \in t :
        haversine_distance(p, e.point) <= haversine_distance(p, f.point)}

---------------------------------------------------------------------------
(* The heap of State values *)

\* Ordering of u32 / i64 values: -1 Less, 0 Equal, 1 Greater
IntCmp(a, b) == IF a < b THEN -1 ELSE IF a = b THEN 0 ELSE 1

\* impl Ord for State: reversed on cost, then by position
StateCmp(self, other) ==
    IF IntCmp(other.cost, self.cost) # 0
    THEN IntCmp(other.cost, self.cost)
    ELSE IntCmp(self.position, other.position)

\* BinaryHeap::push; the sequence is kept greatest first
RECURSIVE HeapPush(_, _)
HeapPush(q, s) ==
    IF q = <<>> THEN <<s>>
    ELSE IF StateCmp(s, Head(q)) = 1 THEN <<s>> \o q
    ELSE <<Head(q)>> \o HeapPush(Tail(q), s)

NoState == [cost |-> 0, position |-> 0, coordinates |-> 0]

\* no query was answered before this one
NoRun == [duration |-> None, start_node |-> 0, recorded |-> {}]

NoRelax == [edge |-> 0, cost |-> 0, outcome |-> "none", pushed |-> None]

---------------------------------------------------------------------------
(* Inputs *)

NodeIds == {1, 2, 3}

\* where each node lies
Coords == <<0, 3, 7>>

NodeSets == {{}, {1, 2}, {1, 2, 3}}

StartPoints ==
    {0, 5, MAX_DISTANCE * UnitsPerMetre + 7, MAX_DISTANCE * UnitsPerMetre + 8}

Pairs == {<<1, 2>>, <<2, 3>>, <<1, 3>>, <<3, 2>>}

WalkingEdges ==
    {[origin |-> p[1], destination |-> p[2], start_time |-> None,
      end_time |-> None, traversal_time |-> t] : p \in Pairs, t \in {None, 2}}

TransportTimes == {<<1, 2>>, <<2, MaxTime>>, <<3, 1>>}

TransportEdges ==
    {[origin |-> p[1], destination |-> p[2], start_time |-> st[1],
      end_time |-> st[2], traversal_time |-> None] : p \in Pairs, st \in TransportTimes}

EdgeUniverse == WalkingEdges \cup TransportEdges

RECURSIVE SubsetsUpTo(_, _)
SubsetsUpTo(S, k) ==
    IF k = 0 THEN {{}}
    ELSE LET prev == SubsetsUpTo(S, k - 1)
         IN  prev \cup {T \cup {x} : T \in prev, x \in S}

RECURSIVE SetToSeq(_)
SetToSeq(S) ==
    IF S = {} THEN <<>>
    ELSE LET x == CHOOSE y \in S : TRUE
         IN  <<x>> \o SetToSeq(S \ {x})

IsTransport(e) == e.start_time # None /\ e.end_time # None

\* Graph::neighbors: an Option, the empty sequence for None and <<edges>> for Some
neighbors(g, index) == IF index \in DOMAIN g THEN <<g[index].edges>> ELSE <<>>

GraphOf(ns, es) ==
    [n \in ns |-> [x |-> Coords[n],
                   edges |-> SetToSeq({e \in es : e.origin = n})]]

TreeOf(g) == {[point |-> g[n].x, id |-> n] : n \in DOMAIN g}

\* a graph and a query over the small timetable
InitSmall ==
    /\ \E ns \in NodeSets :
       \E es \in SubsetsUpTo({e \in EdgeUniverse : e.origin \in ns}, MaxEdges) :
          /\ nodes = GraphOf(ns, es)
          /\ tree = TreeOf(GraphOf(ns, es))
    /\ start_coords \in StartPoints
    /\ arrival_time \in {MaxTime - 1, MaxTime}
    /\ duration \in 0..MaxDur

\* seconds from midnight of h:m:s
Clock(h, m, sec) == (h * 60 + m) * 60 + sec

\* the graph of scenarios 3 and 4: A at the origin, B 0.01 degrees (1112 m) away,
\* one transport edge A -> B from 11:59:00 to 11:59:30
ScenarioGraph ==
    (1 :> [x |-> 0,
           edges |-> <<[origin |-> 1, destination |-> 2,
                        start_time |-> Clock(11, 59, 0), end_time |-> Clock(11, 59, 30),
                        traversal_time |-> None]>>])
    @@ (2 :> [x |-> 1112 * UnitsPerMetre, edges |-> <<>>])

\* scenarios 3 and 4: the query at A, arrival 12:00:00, duration 120 s or 30 s
InitScenario ==
    /\ nodes = ScenarioGraph
    /\ tree = TreeOf(ScenarioGraph)
    /\ start_coords = 0
    /\ arrival_time = Clock(12, 0, 0)
    /\ duration \in {120, 30}

NoElement == [kind |-> "none", id |-> 0, tags |-> <<>>, refs |-> <<>>]

NoFeed == [stops |-> <<>>, trips |-> <<>>, order |-> <<>>]

NoGraph == [nodes |-> <<>>, adjacency |-> <<>>, tree |-> <<>>]

\* a builder in state p that has read nothing
FreshBuilder(p) ==
    /\ b_pc = p
    /\ b_nodes = <<>>
    /\ adjacency = <<>>
    /\ b_tree = <<>>
    /\ element = NoElement
    /\ accepted = FALSE
    /\ n_read = 0
    /\ gtfs = NoFeed
    /\ graph = NoGraph

Init ==
    /\ FreshBuilder("idle")
    /\ profile \in {"debug", "release"}
    /\ InitSmall \/ InitScenario
    /\ start_time = 0
    /\ start_node = 0
    /\ queue = <<>>
    /\ visited = {}
    /\ reachable_coords = <<>>
    /\ pc = "start"
    /\ cur = NoState
    /\ idx = 0
    /\ settled = <<>>
    /\ last_relax = NoRelax
    /\ pushes = 0
    /\ underflow = "none"
    /\ earlier = NoRun
    /\ grid = {}

---------------------------------------------------------------------------
(* dijkstra *)

Halt(p) ==
    /\ pc' = p
    /\ UNCHANGED <<start_time, start_node, queue, visited, reachable_coords, cur, idx,
                   settled, last_relax, pushes>>

\* lines 59-81: earliest departure, snapping, the first push
Start ==
    /\ pc = "start"
    /\ UNCHANGED inputs
    /\ underflow' = IF Overflows(arrival_time - duration) THEN "start_time" ELSE "none"
    /\ LET diff == arrival_time - duration
       IN  IF Overflows(diff) /\ profile = "debug" THEN Halt("panic")
           ELSE IF tree = {} THEN Halt("panic")
           ELSE \E near \in Nearest(tree, start_coords) :
                LET distance == haversine_distance(start_coords, near.point)
                    sum == Wrap(diff) + WalkSeconds(distance)
                IN  IF TooFar(distance) THEN Halt("err")
                    ELSE IF Overflows(sum) /\ profile = "debug" THEN Halt("panic")
                    ELSE /\ start_time' = Wrap(diff)
                         /\ start_node' = near.id
                         /\ queue' = HeapPush(<<>>, [cost |-> Wrap(sum),
                                                     position |-> near.id,
                                                     coordinates |-> start_coords])
                         /\ pc' = "loop"
                         /\ pushes' = 1
                         /\ UNCHANGED <<visited, reachable_coords, cur, idx, settled,
                                        last_relax>>

\* line 83, 152: the heap is empty
Return ==
    /\ pc = "loop"
    /\ queue = <<>>
    /\ pc' = "ok"
    /\ UNCHANGED <<inputs, start_time, start_node, queue, visited, reachable_coords, cur,
                   idx, settled, last_relax, pushes, underflow>>

\* lines 89-91
PopVisited ==
    /\ pc = "loop"
    /\ queue # <<>>
    /\ Head(queue).position \in visited
    /\ queue' = Tail(queue)
    /\ UNCHANGED <<inputs, start_time, start_node, visited, reachable_coords, pc, cur, idx,
                   settled, last_relax, pushes, underflow>>

\* the cutoff one second late
WithinBudgetLoose(current_duration, d) == current_duration <= d + 1

\* line 95: current_duration <= duration
WithinBudget(current_duration, d) == current_duration <= d

\* lines 92-103: settle the popped state
PopSettle ==
    /\ pc = "loop"
    /\ queue # <<>>
    /\ Head(queue).position \notin visited
    /\ UNCHANGED <<inputs, start_time, start_node, last_relax, pushes>>
    /\ underflow' = IF Overflows(Head(queue).cost - start_time)
                    THEN "current_duration" ELSE underflow
    /\ queue' = Tail(queue)
    /\ visited' = visited \cup {Head(queue).position}
    /\ LET s == Head(queue)
           diff == s.cost - start_time
           current_duration == Wrap(diff)
       IN  IF Overflows(diff) /\ profile = "debug"
           THEN /\ pc' = "panic"
                /\ UNCHANGED <<reachable_coords, cur, idx, settled>>
           ELSE /\ settled' = (s.position :> current_duration) @@ settled
                /\ IF WithinBudget(current_duration, duration)
                   THEN /\ reachable_coords' =
                              Append(reachable_coords, [node |-> s.position,
                                                        coordinates |-> s.coordinates,
                                                        value |-> current_duration])
                        /\ cur' = s
                        /\ idx' = 1
                        /\ pc' = IF neighbors(nodes, s.position) = <<>>
                                 THEN "panic" ELSE "edges"
                   ELSE /\ pc' = "loop"
                        /\ UNCHANGED <<reachable_coords, cur, idx>>

\* line 107: the transport edge left before the rider stands at its origin
Missed(edge, cost) == edge.start_time # None /\ edge.start_time < cost

\* line 115: the edge ends after the arrival time
Late(edge, arrival) == edge.end_time # None /\ edge.end_time > arrival

\* the end_time of the edge left unread
CandidateWalked(edge, walked) == walked

\* lines 120-133: edge.end_time.unwrap_or(new_cost + the time to walk the edge); the
\* argument is computed whether or not the edge has an end_time
Candidate(edge, walked) == IF edge.end_time # None THEN edge.end_time ELSE walked

\* lines 101-149: one iteration of the for loop
Relax ==
    /\ pc = "edges"
    /\ idx <= Len(neighbors(nodes, cur.position)[1])
    /\ UNCHANGED <<inputs, start_time, start_node, visited, reachable_coords, cur, settled,
                   underflow>>
    /\ idx' = idx + 1
    /\ LET edge == neighbors(nodes, cur.position)[1][idx]
           cost == cur.cost
           new_cost == IF edge.start_time # None THEN edge.start_time ELSE cost
           known == edge.origin \in DOMAIN nodes /\ edge.destination \in DOMAIN nodes
           step == IF edge.traversal_time # None THEN edge.traversal_time
                   ELSE IF known
                        THEN WalkSeconds(haversine_distance(nodes[edge.origin].x,
                                                            nodes[edge.destination].x))
                        ELSE 0
           sum == new_cost + step
           end_time == Candidate(edge, Wrap(sum))
           log(o, c) == [edge |-> edge, cost |-> cost, outcome |-> o, pushed |-> c]
           crash == /\ pc' = "panic"
                    /\ last_relax' = log("panic", None)
                    /\ UNCHANGED <<queue, pushes>>
           skip(o) == /\ pc' = "edges"
                      /\ last_relax' = log(o, None)
                      /\ UNCHANGED <<queue, pushes>>
       IN  IF Missed(edge, cost) THEN skip("missed")
           ELSE IF Late(edge, arrival_time) THEN skip("late")
           ELSE IF edge.traversal_time = None /\ ~known THEN crash
           ELSE IF Overflows(sum) /\ profile = "debug" THEN crash
           ELSE IF edge.destination \in visited THEN skip("visited")
           ELSE IF edge.destination \notin DOMAIN nodes THEN crash
           ELSE /\ queue' = HeapPush(queue, [cost |-> end_time,
                                             position |-> edge.destination,
                                             coordinates |-> nodes[edge.destination].x])
                /\ last_relax' = log("pushed", end_time)
                /\ pushes' = pushes + 1
                /\ pc' = "edges"

\* the for loop is over
EndEdges ==
    /\ pc = "edges"
    /\ idx > Len(neighbors(nodes, cur.position)[1])
    /\ pc' = "loop"
    /\ UNCHANGED <<inputs, start_time, start_node, queue, visited, reachable_coords, cur,
                   idx, settled, last_relax, pushes, underflow>>

Next == Start \/ Return \/ PopVisited \/ PopSettle \/ Relax \/ EndEdges

Spec == Init /\ [][Next]_vars

---------------------------------------------------------------------------
(* What the search is to compute, on true integers *)

Min(S) == CHOOSE x \in S : \A y \in S : x <= y

Infinity == 2 ^ 30

\* the edges between two nodes of the node map
AllEdges ==
    {e \in UNION {{nodes[n].edges[i] : i \in 1..Len(nodes[n].edges)} : n \in DOMAIN nodes} :
        e.destination \in DOMAIN nodes}

\* the seconds a walking edge takes
WalkCost(e) ==
    IF e.traversal_time # None THEN e.traversal_time
    ELSE WalkSeconds(haversine_distance(nodes[e.origin].x, nodes[e.destination].x))

\* the edge can be taken by a rider who stands at its origin at clock time t
Usable(e, t) == t < Infinity /\ (IsTransport(e) => e.start_time >= t)

\* the clock time at which the edge then delivers the rider
Delivers(e, t) == IF IsTransport(e) THEN e.end_time ELSE t + WalkCost(e)

\* one more edge allowed at the end of every path
Improve(L) ==
    [v \in DOMAIN nodes |->
        Min({L[v]} \cup {Delivers(e, L[e.origin]) :
                           e \in {f \in AllEdges : f.destination = v /\ Usable(f, L[f.origin])}})]

RECURSIVE Closure(_)
Closure(L) == IF Improve(L) = L THEN L ELSE Closure(Improve(L))

\* arrival_time - duration as an integer
earliest_departure == arrival_time - duration

\* the least clock time of arrival at each node over all valid paths from start_node;
\* an earlier arrival at a node keeps every edge usable, so the least arrival at a
\* node is reached by extending least arrivals
EarliestClock ==
    Closure([v \in DOMAIN nodes |->
                IF v = start_node
                THEN earliest_departure
                     + WalkSeconds(haversine_distance(start_coords, nodes[v].x))
                ELSE Infinity])

MinElapsed(v) == EarliestClock[v] - earliest_departure

RecordedNodes == {reachable_coords[i].node : i \in 1..Len(reachable_coords)}

RecordedIsMinimum ==
    /\ \A i \in 1..Len(reachable_coords) :
          reachable_coords[i].value = MinElapsed(reachable_coords[i].node)
    /\ \A v \in DOMAIN nodes : MinElapsed(v) <= duration => v \in RecordedNodes

\* C1: when dijkstra returns, the cost recorded for a node is the minimum over all
\* valid paths of (clock time of arrival - earliest_departure), and every node whose
\* minimum is at most duration is recorded.
C1_RecordedCostIsMinimum == pc = "ok" => RecordedIsMinimum

\* the timetable runs forwards, the budget does not reach before midnight, and every
\* edge ends at a node of the node map
WellFormed ==
    /\ duration <= arrival_time
    /\ \A n \in DOMAIN nodes : \A i \in 1..Len(nodes[n].edges) :
          LET e == nodes[n].edges[i]
          IN  /\ e.destination \in DOMAIN nodes
              /\ IsTransport(e) => e.start_time <= e.end_time

\* on such inputs the search does return the minimum
MinimumOnWellFormed ==
    WellFormed => /\ pc = "ok" => RecordedIsMinimum
                  /\ pc = "panic" => tree = {}

---------------------------------------------------------------------------
(* Budget containment *)

\* the elapsed cost at which the origin of the last relaxed edge was settled
RelaxedFrom == settled[last_relax.edge.origin]

\* C2: every entry of the reachability index has a value <= duration; a node popped
\* over the budget is not recorded, and no edge out of it is relaxed.
C2_BudgetContainment ==
    /\ \A i \in 1..Len(reachable_coords) : reachable_coords[i].value <= duration
    /\ \A n \in DOMAIN settled : settled[n] > duration => n \notin RecordedNodes
    /\ pc = "edges" => settled[cur.position] <= duration
    /\ last_relax.outcome # "none" => RelaxedFrom <= duration

\* a node was popped over the budget and dropped, another was recorded
C2_Witness ==
    /\ pc = "ok"
    /\ \E n \in DOMAIN settled : settled[n] > duration
    /\ Len(reachable_coords) >= 1
    /\ last_relax.outcome = "pushed"

---------------------------------------------------------------------------
(* Transit causality *)

\* the iteration got past the schedule filters of lines 106-118
Relaxed == last_relax.outcome \in {"pushed", "visited", "panic"}

\* earliest_departure + cur_cost as the code holds it: the cost of the popped state
Boarding == Wrap(start_time + RelaxedFrom)

\* earliest_departure + cur_cost
BoardingClock == earliest_departure + RelaxedFrom

\* C3: a transport edge out of a node settled at cur_cost is relaxed iff its
\* start_time >= earliest_departure + cur_cost and its end_time <= the arrival time;
\* an edge that starts earlier never enqueues its destination.
C3_TransitCausality ==
    (last_relax.outcome # "none" /\ IsTransport(last_relax.edge)) =>
        /\ Relaxed <=> /\ last_relax.edge.start_time >= BoardingClock
                       /\ last_relax.edge.end_time <= arrival_time
        /\ last_relax.edge.start_time < BoardingClock => last_relax.outcome # "pushed"

\* the same against the sum as the code holds it in a u32
TransitCausalityInWord ==
    (last_relax.outcome # "none" /\ IsTransport(last_relax.edge)) =>
        /\ Relaxed <=> /\ last_relax.edge.start_time >= Boarding
                       /\ last_relax.edge.end_time <= arrival_time
        /\ last_relax.edge.start_time < Boarding => last_relax.outcome # "pushed"

\* the same when the budget lies inside the day
TransitCausalityInsideDay == duration <= arrival_time => C3_TransitCausality

---------------------------------------------------------------------------
(* The cost a transport edge hands to its destination *)

\* C4: the state pushed for a transport edge carries the elapsed cost
\* end_time - earliest_departure, whatever the cost at which its origin was settled.
C4_TransportCandidate ==
    (last_relax.outcome = "pushed" /\ IsTransport(last_relax.edge)) =>
        /\ Wrap(last_relax.pushed - start_time) =
              Wrap(last_relax.edge.end_time - earliest_departure)
        /\ (pc = "edges" /\ cur.position = last_relax.edge.origin) =>
              \E i \in 1..Len(queue) :
                 /\ queue[i].position = last_relax.edge.destination
                 /\ queue[i].cost = last_relax.edge.end_time

\* the rider waited at the origin, which was not settled at cost 0
C4_Witness ==
    /\ last_relax.outcome = "pushed"
    /\ IsTransport(last_relax.edge)
    /\ last_relax.edge.start_time > Boarding
    /\ RelaxedFrom > 0
    /\ last_relax.edge.end_time > last_relax.edge.start_time

---------------------------------------------------------------------------
(* Scenario 3 *)

Scenario3 ==
    /\ nodes = ScenarioGraph
    /\ start_coords = 0
    /\ arrival_time = Clock(12, 0, 0)
    /\ duration = 120

\* the cost map returned: node -> value
ReturnedCosts ==
    {<<reachable_coords[i].node, reachable_coords[i].value>> : i \in 1..Len(reachable_coords)}

\* C5 as stated: scenario 3 returns A:0, B:30.
C5_Scenario3AsStated == (Scenario3 /\ pc = "ok") => ReturnedCosts = {<<1, 0>>, <<2, 30>>}

\* C5 amended: scenario 3 returns A:0, B:90 (11:59:30 is 90 s after 11:58:00), and
\* it does return.
C5_Scenario3 ==
    /\ (Scenario3 /\ pc = "ok") => ReturnedCosts = {<<1, 0>>, <<2, 90>>}
    /\ Scenario3 => pc \notin {"panic", "err"}

C5_Witness == Scenario3 /\ pc = "ok" /\ Len(reachable_coords) = 2

---------------------------------------------------------------------------
(* Start snapping *)

\* the geodesic distance from the query point to the nearest node of the index
NearestDistance == Min({haversine_distance(start_coords, e.point) : e \in tree})

\* C6: dijkstra returns StartTooFar, with no result and no node expanded, iff the
\* nearest node is more than 500 m away; otherwise the search starts at a nearest
\* node with the initial elapsed cost distance / walking_speed.
C6_StartSnapping ==
    (pc # "start" /\ tree # {}) =>
        /\ pc = "err" <=> TooFar(NearestDistance)
        /\ pc = "err" => visited = {} /\ reachable_coords = <<>> /\ queue = <<>>
        /\ ~TooFar(NearestDistance) =>
              /\ \E e \in Nearest(tree, start_coords) : e.id = start_node
              /\ start_node \in DOMAIN settled =>
                    settled[start_node] = WalkSeconds(NearestDistance)

\* the same with the budget inside the day (duration <= arrival time)
StartSnappingInsideDay == duration <= arrival_time => C6_StartSnapping

---------------------------------------------------------------------------
(* GraphBuilder *)

\* NodeId::Osm, NodeId::Gtfs
Osm(i) == <<"Osm", i>>

Gtfs(i) == <<"Gtfs", i>>

WalkingEdge(o, d, t) ==
    [origin |-> o, destination |-> d, start_time |-> None, end_time |-> None,
     traversal_time |-> t]

TransportEdge(o, d, st, et) ==
    [origin |-> o, destination |-> d, start_time |-> st, end_time |-> et,
     traversal_time |-> None]

\* GraphBuilder::add_edge
add_edge(adj, edge) ==
    IF edge.origin \in DOMAIN adj
    THEN [adj EXCEPT ![edge.origin] = Append(@, edge)]
    ELSE (edge.origin :> <<edge>>) @@ adj

\* GraphBuilder::add_node; the node lies at lat on the meridian
add_node(ns, index, lat) ==
    [k \in DOMAIN ns \cup {index} |-> IF k = index THEN [lat |-> lat] ELSE ns[k]]

\* no node is dropped: the pruning left out
keep_all_nodes(ns, adj) == ns

\* GraphBuilder::clear_edgeless_nodes
clear_edgeless_nodes(ns, adj) == [k \in DOMAIN ns \cap DOMAIN adj |-> ns[k]]

\* is_walkable_node
is_walkable_node(tags) ==
    \E i \in 1..Len(tags) : tags[i][1] = "foot" /\ tags[i][2] # "no"

NotWalkableHighways ==
    {"abandoned", "bus_guideway", "construction", "cycleway", "motor", "no",
     "planned", "platform", "proposed", "raceway", "razed"}

\* the loop of is_walkable_way over the tags from index i on
RECURSIVE WayFlags(_, _, _)
WayFlags(tags, i, f) ==
    IF i > Len(tags) THEN f
    ELSE LET key == tags[i][1]
             value == tags[i][2]
         IN  WayFlags(tags, i + 1,
                IF key = "highway"
                THEN [f EXCEPT !.is_highway_walkable = value \notin NotWalkableHighways]
                ELSE IF key = "foot" /\ value = "no"
                THEN [f EXCEPT !.foot_allowed = FALSE]
                ELSE IF key = "service" /\ value = "private"
                THEN [f EXCEPT !.service_allowed = FALSE]
                ELSE f)

\* is_walkable_way
is_walkable_way(tags) ==
    LET f == WayFlags(tags, 1, [is_highway_walkable |-> FALSE, foot_allowed |-> TRUE,
                                service_allowed |-> TRUE])
    IN  f.is_highway_walkable /\ f.foot_allowed /\ f.service_allowed

\* lines 59-73: the two walking edges of every window of two references, from window i on
RECURSIVE AddWay(_, _, _)
AddWay(adj, refs, i) ==
    IF i + 1 > Len(refs) THEN adj
    ELSE LET first == Osm(refs[i])
             second == Osm(refs[i + 1])
         IN  AddWay(add_edge(add_edge(adj, WalkingEdge(first, second, None)),
                             WalkingEdge(second, first, None)),
                    refs, i + 1)

---------------------------------------------------------------------------
(* The street network read by load_osm *)

MaxElements == 3

OsmIds == {1, 2}

\* where the street nodes lie
OsmCoords == <<0, 4>>

NodeTagLists == {<<>>, << <<"foot", "yes">> >>, << <<"foot", "no">> >>,
                 << <<"highway", "crossing">> >>}

WayTagLists == {<< <<"highway", "footway">> >>, << <<"highway", "motor">> >>,
                << <<"highway", "footway">>, <<"foot", "no">> >>,
                << <<"highway", "footway">>, <<"service", "private">> >>}

WayRefs == {<<1>>, <<1, 2>>, <<2, 3>>, <<1, 2, 3>>}

Elements ==
    {[kind |-> "node", id |-> i, tags |-> t, refs |-> <<>>] : i \in OsmIds, t \in NodeTagLists}
    \cup {[kind |-> "dense", id |-> i, tags |-> <<>>, refs |-> <<>>] : i \in OsmIds}
    \cup {[kind |-> "way", id |-> 0, tags |-> t, refs |-> r] : t \in WayTagLists, r \in WayRefs}
    \cup {[kind |-> "relation", id |-> 0, tags |-> <<>>, refs |-> <<>>]}

\* a builder dropped after an error or a panic
Dropped(p) ==
    /\ b_pc' = p
    /\ b_nodes' = <<>>
    /\ adjacency' = <<>>
    /\ b_tree' = <<>>
    /\ element' = NoElement
    /\ accepted' = FALSE
    /\ UNCHANGED <<n_read, graph>>

\* lines 46-83: the closure of for_each on one element
OsmElement ==
    /\ b_pc \in {"new", "osm"}
    /\ n_read < MaxElements
    /\ \E e \in Elements :
          /\ element' = e
          /\ accepted' = (e.kind = "node" /\ is_walkable_node(e.tags))
          /\ b_nodes' = IF \/ e.kind = "dense"
                           \/ e.kind = "node" /\ is_walkable_node(e.tags)
                        THEN add_node(b_nodes, Osm(e.id), OsmCoords[e.id])
                        ELSE b_nodes
          /\ adjacency' = IF e.kind = "way" /\ is_walkable_way(e.tags)
                          THEN AddWay(adjacency, e.refs, 1)
                          ELSE adjacency
    /\ b_pc' = "osm"
    /\ n_read' = n_read + 1
    /\ UNCHANGED <<dvars, b_tree, gtfs, graph>>

\* lines 45, 84: the file cannot be opened or an element cannot be decoded
OsmReadError ==
    /\ b_pc \in {"new", "osm"}
    /\ Dropped("error")
    /\ UNCHANGED <<dvars, gtfs>>

\* lines 86-94: the elements are read; prune and fill the spatial index
FinishOsm ==
    /\ b_pc \in {"new", "osm"}
    /\ LET kept == clear_edgeless_nodes(b_nodes, adjacency)
       IN  /\ b_nodes' = kept
           /\ b_tree' = SetToSeq({[point |-> kept[k].lat, id |-> k] : k \in DOMAIN kept})
    /\ b_pc' = "osm_loaded"
    /\ element' = NoElement
    /\ accepted' = FALSE
    /\ UNCHANGED <<dvars, adjacency, n_read, gtfs, graph>>

---------------------------------------------------------------------------
(* The transit feed read by load_gtfs *)

MaxStopTimes == 2

StopIds == {1, 2}

\* where the stops lie
StopCoords == <<2, 7>>

\* the pathways a stop may declare; stop 3 is named by a pathway only
PathwayLists(s) ==
    IF s # 1 THEN {<<>>}
    ELSE {<<>>,
          <<[to_stop_id |-> 2, is_bidirectional |-> FALSE, traversal_time |-> 5]>>,
          <<[to_stop_id |-> 2, is_bidirectional |-> TRUE, traversal_time |-> None]>>,
          <<[to_stop_id |-> 3, is_bidirectional |-> TRUE, traversal_time |-> 5]>>}

StopRecords(s) ==
    {[longitude |-> c[1], latitude |-> c[2], pathways |-> pw] :
        c \in {<<0, StopCoords[s]>>, <<None, StopCoords[s]>>, <<0, None>>},
        pw \in PathwayLists(s)}

Max(S) == CHOOSE x \in S : \A y \in S : x >= y

Least(S) == CHOOSE x \in S : \A y \in S : x <= y

\* the i-th stop-time of a trip: at the stops in turn, its times present or not
StopTimesAt(i, present) ==
    {[stop |-> IF i % 2 = 1 THEN Least(present) ELSE Max(present),
      arrival_time |-> a, departure_time |-> d] :
        a \in {None, 10 * i}, d \in {None, 10 * i + 1}}

\* the stop_times lists of length n
RECURSIVE TripsOfLength(_, _)
TripsOfLength(n, present) ==
    IF n = 0 THEN {<<>>}
    ELSE {Append(t, st) : t \in TripsOfLength(n - 1, present), st \in StopTimesAt(n, present)}

Trips(present) ==
    IF present = {} THEN {<<>>}
    ELSE UNION {TripsOfLength(n, present) : n \in 0..MaxStopTimes}

\* the orders in which a HashMap may hand out the keys
RECURSIVE Orders(_)
Orders(S) ==
    IF S = {} THEN {<<>>}
    ELSE UNION {{<<x>> \o o : o \in Orders(S \ {x})} : x \in S}

Feeds ==
    UNION {{[stops |-> f, trips |-> tl, order |-> o] :
               f \in {g \in [present -> UNION {StopRecords(s) : s \in StopIds}] :
                         \A s \in present : g[s] \in StopRecords(s)},
               tl \in {<<>>} \cup {<<t>> : t \in Trips(present)},
               o \in Orders(present)} :
           present \in {{}, {1}, {1, 2}}}

\* the elements of a sequence
Range(q) == {q[i] : i \in 1..Len(q)}

\* nearest_point(&self.tree, ..) for every stop: any entry at the least distance
NearChoices(feed, t) ==
    [DOMAIN feed.stops ->  Range(t) \cup {[point |-> 0, id |-> Osm(0)]}]

IsNearest(feed, t, near) ==
    \A s \in DOMAIN feed.stops :
        IF t = <<>> \/ feed.stops[s].latitude = None
        THEN near[s] = [point |-> 0, id |-> Osm(0)]
        ELSE near[s] \in Nearest(Range(t), feed.stops[s].latitude)

Failed(st, how) == [st EXCEPT !.status = how]

\* lines 129-152: the edges of the pathways of a stop, from pathway i on
RECURSIVE Pathways(_, _, _, _)
Pathways(adj, stop_id, paths, i) ==
    IF i > Len(paths) THEN adj
    ELSE LET path == paths[i]
             to_id == Gtfs(path.to_stop_id)
             there == add_edge(adj, WalkingEdge(stop_id, to_id, path.traversal_time))
         IN  Pathways(IF path.is_bidirectional
                      THEN add_edge(there, WalkingEdge(to_id, stop_id, path.traversal_time))
                      ELSE there,
                      stop_id, paths, i + 1)

\* lines 104-154: the first loop over the stops, from the i-th of the order on
RECURSIVE StopsLoop(_, _, _, _, _)
StopsLoop(st, feed, t, near, i) ==
    IF st.status # "ok" \/ i > Len(feed.order) THEN st
    ELSE LET s == feed.order[i]
             stop == feed.stops[s]
             stop_id == Gtfs(s)
         IN  IF stop.longitude = None \/ stop.latitude = None THEN Failed(st, "error")
             ELSE IF t = <<>> THEN Failed(st, "panic")
             ELSE LET distance == haversine_distance(near[s].point, stop.latitude)
                      osm_node == near[s].id
                      traversal_time == WalkSeconds(distance)
                      there == add_edge(st.adjacency,
                                        WalkingEdge(stop_id, osm_node, traversal_time))
                      back == add_edge(there, WalkingEdge(osm_node, stop_id, traversal_time))
                  IN  StopsLoop([status |-> "ok",
                                 nodes |-> add_node(st.nodes, stop_id, stop.latitude),
                                 adjacency |-> Pathways(back, stop_id, stop.pathways, 1)],
                                feed, t, near, i + 1)

\* lines 157-171: the transport edges of the windows of two stop-times, from window i on
RECURSIVE TripWindows(_, _, _)
TripWindows(st, trip, i) ==
    IF st.status # "ok" \/ i + 1 > Len(trip) THEN st
    ELSE IF trip[i].departure_time = None THEN Failed(st, "error")
    ELSE IF trip[i + 1].arrival_time = None THEN Failed(st, "error")
    ELSE TripWindows([st EXCEPT !.adjacency =
                        add_edge(@, TransportEdge(Gtfs(trip[i].stop), Gtfs(trip[i + 1].stop),
                                                  trip[i].departure_time,
                                                  trip[i + 1].arrival_time))],
                     trip, i + 1)

\* lines 156-172: the loop over the trips, from the i-th on
RECURSIVE TripsLoop(_, _, _)
TripsLoop(st, trips, i) ==
    IF st.status # "ok" \/ i > Len(trips) THEN st
    ELSE TripsLoop(TripWindows(st, trips[i], 1), trips, i + 1)

\* the stops never reach the index
StopsLeftOut(t, feed) == t

\* lines 174-183: the stops enter the spatial index
StopsIntoTree(t, feed) ==
    t \o [i \in 1..Len(feed.order) |->
            [point |-> feed.stops[feed.order[i]].latitude, id |-> Gtfs(feed.order[i])]]

\* lines 97-186: load_gtfs on a feed that was read
LoadGtfs ==
    /\ b_pc = "osm_loaded"
    /\ \E feed \in Feeds :
       \E near \in NearChoices(feed, b_tree) :
          /\ IsNearest(feed, b_tree, near)
          /\ gtfs' = feed
          /\ LET begun == [status |-> "ok", nodes |-> b_nodes, adjacency |-> adjacency]
                 done == TripsLoop(StopsLoop(begun, feed, b_tree, near, 1), feed.trips, 1)
             IN  IF done.status = "ok"
                 THEN /\ b_pc' = "gtfs_loaded"
                      /\ b_nodes' = done.nodes
                      /\ adjacency' = done.adjacency
                      /\ b_tree' = StopsIntoTree(b_tree, feed)
                      /\ UNCHANGED <<element, accepted, n_read, graph>>
                 ELSE Dropped(done.status)
    /\ UNCHANGED dvars

\* lines 98-102: the feed cannot be read
GtfsReadError ==
    /\ b_pc = "osm_loaded"
    /\ Dropped("error")
    /\ UNCHANGED <<dvars, gtfs>>

\* lines 188-194: build
Build ==
    /\ b_pc = "gtfs_loaded"
    /\ graph' = [nodes |-> b_nodes, adjacency |-> adjacency, tree |-> b_tree]
    /\ b_pc' = "built"
    /\ UNCHANGED <<dvars, b_nodes, adjacency, b_tree, element, accepted, n_read, gtfs>>

InitBuild ==
    /\ FreshBuilder("new")
    /\ profile = "debug"
    /\ nodes = <<>>
    /\ tree = {}
    /\ start_coords = 0
    /\ arrival_time = 0
    /\ duration = 0
    /\ start_time = 0
    /\ start_node = 0
    /\ queue = <<>>
    /\ visited = {}
    /\ reachable_coords = <<>>
    /\ pc = "idle"
    /\ cur = NoState
    /\ idx = 0
    /\ settled = <<>>
    /\ last_relax = NoRelax
    /\ pushes = 0
    /\ underflow = "none"
    /\ earlier = NoRun
    /\ grid = {}

NextBuild == OsmElement \/ OsmReadError \/ FinishOsm \/ LoadGtfs \/ GtfsReadError \/ Build

SpecBuild == InitBuild /\ [][NextBuild]_vars

---------------------------------------------------------------------------
(* The graph that build returns *)

GraphEdges ==
    UNION {Range(graph.adjacency[k]) : k \in DOMAIN graph.adjacency}

\* C7: after load_osm, load_gtfs and build, the origin and the destination of every
\* edge of the adjacency map have an entry in the node map.
C7_EdgeEndsHaveNodes ==
    b_pc = "built" =>
        \A e \in GraphEdges :
            e.origin \in DOMAIN graph.nodes /\ e.destination \in DOMAIN graph.nodes

\* C8: after load_osm, load_gtfs and build, every node of the node map has at least
\* one outgoing edge in the adjacency map.
C8_EveryNodeHasEdges ==
    b_pc = "built" =>
        \A k \in DOMAIN graph.nodes :
            k \in DOMAIN graph.adjacency /\ Len(graph.adjacency[k]) >= 1

\* a graph with a street node that kept its edges, a stop, and a street node read
\* but pruned
C8_Witness ==
    /\ b_pc = "built"
    /\ \E k \in DOMAIN graph.nodes : k[1] = "Osm"
    /\ \E k \in DOMAIN graph.nodes : k[1] = "Gtfs"
    /\ n_read = MaxElements
    /\ Cardinality({k \in DOMAIN graph.nodes : k[1] = "Osm"}) = 1

\* C9: a node element is accepted iff its tags do not hold foot=no.
C9_NodeAcceptedUnlessFootNo ==
    (b_pc = "osm" /\ element.kind = "node") =>
        /\ accepted <=> \A i \in 1..Len(element.tags) : element.tags[i] # <<"foot", "no">>
        /\ accepted => Osm(element.id) \in DOMAIN b_nodes

\* every stop has its coordinates and every stop-time both of its times
FeedComplete(feed) ==
    /\ \A s \in DOMAIN feed.stops :
          feed.stops[s].longitude # None /\ feed.stops[s].latitude # None
    /\ \A i \in 1..Len(feed.trips) : \A j \in 1..Len(feed.trips[i]) :
          /\ feed.trips[i][j].arrival_time # None
          /\ feed.trips[i][j].departure_time # None

\* C10: load_gtfs returns no builder, and build no graph, from a feed in which a stop
\* lacks a coordinate or a stop-time lacks its arrival_time or its departure_time.
C10_IngestFailsOnMissingField ==
    b_pc \in {"gtfs_loaded", "built"} => FeedComplete(gtfs)

---------------------------------------------------------------------------
(* The spatial index of the graph that build returns *)

\* the ids stored in the index, one for every entry
TreeIds == [i \in 1..Len(graph.tree) |-> graph.tree[i].id]

\* the street nodes left by the pruning, and every stop of the feed
IndexedByRights ==
    {k \in DOMAIN graph.nodes : k[1] = "Osm"} \cup {Gtfs(s) : s \in DOMAIN gtfs.stops}

\* C11: after load_osm, load_gtfs and build, the ids of the spatial index are the
\* street nodes that survived the pruning and every stop, each stored once.
C11_IndexHoldsSurvivorsAndStops ==
    b_pc = "built" =>
        /\ Range(TreeIds) = IndexedByRights
        /\ \A i, j \in 1..Len(TreeIds) : TreeIds[i] = TreeIds[j] => i = j

\* a street node was pruned, another kept, and two stops were read
C11_Witness ==
    /\ b_pc = "built"
    /\ n_read = MaxElements
    /\ Osm(1) \notin DOMAIN graph.nodes
    /\ Osm(2) \in Range(TreeIds)
    /\ Gtfs(1) \in Range(TreeIds) /\ Gtfs(2) \in Range(TreeIds)

---------------------------------------------------------------------------
(* Termination of the main loop *)

\* the run of dijkstra is over: it returned, or it panicked
Stopped == pc \in {"ok", "err", "panic"}

\* the number of edges of the graph
NumEdges == Cardinality(AllEdges)

\* no node is recorded, and so expanded, twice
ExpandedOnce ==
    \A i, j \in 1..Len(reachable_coords) :
        reachable_coords[i].node = reachable_coords[j].node => i = j

\* one push for the start state and at most one for every edge
PushesBounded == pushes <= 1 + NumEdges

\* the loop is left with the heap empty
HeapEmptied == Stopped => queue = <<>>

\* C12: the main loop terminates: a node is expanded at most once, there are at most
\* one plus the number of edges pushes, and the loop ends with the heap empty.
C12_LoopTerminates == ExpandedOnce /\ PushesBounded /\ HeapEmptied

\* every step of the search is taken in the end
SpecFair == Spec /\ WF_vars(Next)

\* the run is over in the end, by a return or by a panic
EventuallyStopped == <>Stopped

\* on a graph whose edges all lead to nodes, searched from inside the day, the loop
\* ends with the heap empty
LoopTerminatesOnWellFormed == WellFormed => C12_LoopTerminates

---------------------------------------------------------------------------
(* The same query asked again with a budget at least as large *)

\* the budgets a query may name
Budgets == (0..MaxDur) \cup {30, 120}

\* the server answers a second request for the same point and arrival time: what the
\* first call of dijkstra returned is kept, and dijkstra starts afresh
Requery ==
    /\ pc = "ok"
    /\ earlier = NoRun
    /\ \E d \in {b \in Budgets : b >= duration} : duration' = d
    /\ earlier' = [duration |-> duration, start_node |-> start_node,
                   recorded |-> RecordedNodes]
    /\ start_time' = 0
    /\ start_node' = 0
    /\ queue' = <<>>
    /\ visited' = {}
    /\ reachable_coords' = <<>>
    /\ pc' = "start"
    /\ cur' = NoState
    /\ idx' = 0
    /\ settled' = <<>>
    /\ last_relax' = NoRelax
    /\ pushes' = 0
    /\ underflow' = "none"
    /\ UNCHANGED <<profile, nodes, tree, start_coords, arrival_time, grid, bvars>>

NextMono == Start \/ Return \/ PopVisited \/ PopSettle \/ Relax \/ EndEdges \/ Requery

SpecMono == Init /\ [][NextMono]_vars

\* the second query was answered, from the node the first one started at
Answered == earlier # NoRun /\ Stopped /\ (pc = "ok" => start_node = earlier.start_node)

\* what the second query recorded
RecordedAgain == IF pc = "ok" THEN RecordedNodes ELSE {}

\* C13: for a fixed graph, start coordinate and arrival time, every node recorded
\* for the duration D1 is recorded for every duration D2 >= D1.
C13_MonotoneInBudget == Answered => earlier.recorded \subseteq RecordedAgain

\* the same on a graph whose edges all lead to nodes, with both budgets inside the day
MonotoneOnWellFormed == WellFormed => C13_MonotoneInBudget

\* a larger budget inside the day brought a node more, reached by a ride
MonotoneOnWellFormedWitness ==
    /\ WellFormed
    /\ Answered /\ pc = "ok"
    /\ duration > earlier.duration
    /\ earlier.recorded # {}
    /\ earlier.recorded # RecordedNodes
    /\ last_relax.outcome = "pushed" /\ IsTransport(last_relax.edge)

---------------------------------------------------------------------------
(* The u32 subtractions of dijkstra *)

\* every transport edge ends no earlier than it starts
WellTimed ==
    \A n \in DOMAIN nodes : \A i \in 1..Len(nodes[n].edges) :
        IsTransport(nodes[n].edges[i]) =>
            nodes[n].edges[i].start_time <= nodes[n].edges[i].end_time

\* C14: on a graph whose transport edges have start_time <= end_time, neither
\* arrival_seconds - duration (line 61) nor cost - start_time (line 94) goes below zero.
C14_NoUnderflow == WellTimed => underflow = "none"

\* the same for the queries whose budget lies inside the day
NoUnderflowInsideDay == (WellTimed /\ duration <= arrival_time) => underflow = "none"

\* a ride was taken and its destination popped, inside the day
NoUnderflowInsideDayWitness ==
    /\ WellTimed /\ duration <= arrival_time
    /\ pc = "ok"
    /\ \E i \in 1..Len(reachable_coords) : reachable_coords[i].value > 0
    /\ last_relax.outcome = "pushed" /\ IsTransport(last_relax.edge)
    /\ last_relax.edge.destination \in visited

---------------------------------------------------------------------------
(* The grid laid over the returned index *)

\* the cells of the grid: points about the query point
GridCells == {start_coords, start_coords + UnitsPerMetre}

\* tree.nearest(&[x, y], 1, ..) on the returned index: any entry at the least distance
NearestEntries(c) ==
    {e \in Range(reachable_coords) :
        \A o \in Range(reachable_coords) :
            haversine_distance(c, e.coordinates) <= haversine_distance(c, o.coordinates)}

\* isochrone.rs lines 41-49: time + distance / OFF_ROAD_WALKING_SPEED < duration
InReach(c, e) ==
    e.value * UnitsPerMetre + haversine_distance(c, e.coordinates) < duration * UnitsPerMetre

\* isochrone.rs lines 16-53: create_grid on what dijkstra returned; nearest[0] of an
\* empty index is out of bounds
CreateGrid ==
    /\ pc = "ok"
    /\ IF reachable_coords = <<>>
       THEN /\ pc' = "crash"
            /\ UNCHANGED grid
       ELSE /\ \E near \in [GridCells -> Range(reachable_coords)] :
                  /\ \A c \in GridCells : near[c] \in NearestEntries(c)
                  /\ grid' = {c \in GridCells : InReach(c, near[c])}
            /\ pc' = "done"
    /\ UNCHANGED <<profile, nodes, tree, start_coords, arrival_time, duration, earlier,
                   bvars, start_time, start_node, queue, visited, reachable_coords, cur,
                   idx, settled, last_relax, pushes, underflow>>

NextQuery == Start \/ Return \/ PopVisited \/ PopSettle \/ Relax \/ EndEdges \/ CreateGrid

SpecQuery == Init /\ [][NextQuery]_vars

\* C15: when dijkstra returns Ok the returned index holds at least one entry, also
\* when the walk to the snapped node costs more than the duration, so the lookup of
\* create_grid finds an entry and the query does not crash.
C15_OkIndexNotEmpty ==
    /\ pc = "ok" => Len(reachable_coords) >= 1
    /\ pc # "crash"

\* the same when the walk to the snapped node is within the budget
OkIndexNotEmptyInReach ==
    (start_node # 0 /\ WalkSeconds(NearestDistance) <= duration /\ underflow = "none") =>
        C15_OkIndexNotEmpty

====
